---------------------------- MODULE Spec2Model ----------------------------
(***************************************************************************)
(* Model of gpt_rascunho_ic.py: the monochromator wrapper                  *)
(* (BenthamMonochromator), the lock-in wrapper (SR7265LockIn) and the      *)
(* sweep controller (Experimento.executar_varredura).                      *)
(*                                                                         *)
(* Units: wavelengths are whole nanometres, durations are hundredths of a  *)
(* second (tau = 30 is the source's 0.3 s).  The instruments are the       *)
(* environment.  The drive reaches the positions of a grid fixed for the    *)
(* behaviour; every other answer of the hardware (status bit, sample, VISA *)
(* or driver error) is a nondeterministic choice, and an answer other than *)
(* the nominal one costs one unit of `budget`.                             *)
(***************************************************************************)
EXTENDS Integers, Sequences, FiniteSets, TLC

---------------------------------------------------------------------------
(* Bounds of the model *)

\* sweeps executed on one Experimento in a behaviour
MaxSweeps == 2
\* direct calls of the actuator's methods in a behaviour
MaxDirectCalls == 3
\* non-nominal hardware answers in a behaviour
MaxAnomalies == 1
\* largest distance end - start of a sweep configuration
MaxSpan == 1
\* non-nominal hardware answers in the 400..800 scenario
E2EAnomalies == 0
\* largest magnitude of the in-phase and quadrature values derived from
MaxMag == 5

(* Inputs *)
Starts == {480, 650}
Steps == {1, 2}
Taus == {10, 30}
Targets == {1, 480, 500}
\* position grids of the drive, in nm: the achieved wavelength is the multiple
\* of the grid nearest to the requested one (1: every request is met exactly)
Grids == {1, 3}
\* a float as sign and magnitude, so that -0.0 differs from 0.0
F(i) == [s |-> IF i < 0 THEN -1 ELSE 1, m |-> IF i < 0 THEN -i ELSE i]
NegZero == [s |-> -1, m |-> 0]
\* (in-phase, quadrature) pairs the detector returns in a sweep
NominalSample == <<F(3), F(4)>>
Samples == {<<F(3), F(4)>>, <<F(0), F(-2)>>}
\* the floats float() can parse from an answer of the detector
Floats == {[s |-> sg, m |-> k] : sg \in {1, -1}, k \in 0..MaxMag}

(* The value None of an optional field, and a present value *)
None == <<>>
Some(v) == <<v>>

Max(a, b) == IF a >= b THEN a ELSE b

Ev(o, a) == [op |-> o, arg |-> a]

---------------------------------------------------------------------------
(* Program constants *)

\* OVERSHOOT = 2.0
OVERSHOOT == 2
\* time.sleep(0.1) after the overshoot move
BACKLASH_SLEEP == 10
\* time.sleep(... if not SIMULATE else 0.05)
SIM_SLEEP == 5
\* tempo_espera = tau * 5
TAU_FACTOR == 5
\* is_overload = (640 < wl < 660)
SIM_OVERLOAD_LO == 640
SIM_OVERLOAD_HI == 660

VARIABLES
    SIMULATE,    \* the module-level flag
    grid,        \* the drive's position grid (environment)
    mono,        \* BenthamMonochromator: [current_lambda, lib]
    lockin,      \* SR7265LockIn: [inst, tau]
    dados,       \* Experimento.dados
    session,     \* the actuator's hardware session: "none", "open", "released"
    pc,          \* position in executar_varredura ("idle" outside a call)
    loc,         \* locals of executar_varredura
    exc,         \* an exception is propagating through the finally block
    trace,       \* history: operations of the current / last executar_varredura
    dados0,      \* history: dados when the current / last sweep was called
    mv,          \* history: the last mover_para call
    call,        \* history: the last direct call of an actuator method
    budget,      \* non-nominal hardware answers left
    sweeps,      \* sweeps started
    directs      \* direct calls made

vars == <<SIMULATE, grid, mono, lockin, dados, session, pc, loc, exc, trace, dados0,
          mv, call, budget, sweeps, directs>>

---------------------------------------------------------------------------
(* BenthamMonochromator.  Each method is the set of its possible outcomes:  *)
(* the object afterwards, whether it raised, the hardware events it issued  *)
(* and the cost of the hardware's answer.                                   *)

\* __init__: current_lambda = None, lib = None
NewMono == [current_lambda |-> None, lib |-> "None"]

\* inicializar: nothing in simulation; else LoadLibrary (may raise OSError and
\* leave lib unset), then BI_initialise / BI_build_system (RuntimeError when
\* either returns non-zero, lib already set)
MonoInicializar(m, s, sim) ==
    IF sim
    THEN {[mono |-> m, session |-> s, raised |-> FALSE, cost |-> 0]}
    ELSE {[mono |-> [m EXCEPT !.lib = "loaded"], session |-> "open",
           raised |-> FALSE, cost |-> 0],
          [mono |-> m, session |-> s, raised |-> TRUE, cost |-> 1],
          [mono |-> [m EXCEPT !.lib = "loaded"], session |-> s,
           raised |-> TRUE, cost |-> 1]}

\* the backlash test with the comparison reversed
NeedsOvershootUp(cur, lambda_nm) == cur # None /\ lambda_nm > cur[1]

\* the backlash test: self.current_lambda is not None and lambda_nm < self.current_lambda
NeedsOvershoot(cur, lambda_nm) == cur # None /\ lambda_nm < cur[1]

\* temp_wl = max(0, lambda_nm - OVERSHOOT)
OvershootTarget(lambda_nm) == Max(0, lambda_nm - OVERSHOOT)

\* the hardware commands of one real mover_para: the optional overshoot move
\* and its pause, then the move to the target
MoveEvents(cur, lambda_nm) ==
    (IF NeedsOvershoot(cur, lambda_nm)
     THEN <<Ev("cmd", OvershootTarget(lambda_nm)),
            Ev("backlash_sleep", BACKLASH_SLEEP)>>
     ELSE <<>>)
    \o <<Ev("cmd", lambda_nm)>>

\* wl_real.value after BI_select_wavelength(wl_req, byref(wl_real)): the
\* grid position nearest to the request
Achieved(wl, g) == ((2 * wl + g) \div (2 * g)) * g

\* mover_para: in simulation stores and returns the target without any
\* command; else the commands of MoveEvents, storing and returning the
\* achieved wavelength of the last one.  _enviar_comando on an unset lib
\* raises AttributeError before anything is sent or stored.
MoverPara(m, lambda_nm, sim, g) ==
    IF sim
    THEN {[mono |-> [m EXCEPT !.current_lambda = Some(lambda_nm)],
           events |-> <<>>, ret |-> lambda_nm, raised |-> FALSE, cost |-> 0]}
    ELSE IF m.lib = "None"
    THEN {[mono |-> m, events |-> <<>>, ret |-> 0, raised |-> TRUE, cost |-> 0]}
    ELSE {[mono |-> [m EXCEPT !.current_lambda = Some(Achieved(lambda_nm, g))],
           events |-> MoveEvents(m.current_lambda, lambda_nm),
           ret |-> Achieved(lambda_nm, g), raised |-> FALSE, cost |-> 0]}

\* fechar forgetting the position after parking
MonoFecharResets(m, s, sim) ==
    IF sim
    THEN {[mono |-> m, session |-> s, raised |-> FALSE, cost |-> 0]}
    ELSE IF m.lib = "None"
    THEN {[mono |-> m, session |-> s, raised |-> TRUE, cost |-> 0]}
    ELSE {[mono |-> [m EXCEPT !.current_lambda = None],
           session |-> "released", raised |-> FALSE, cost |-> 0]}

\* fechar: nothing in simulation; else self.lib.BI_park() and
\* self.lib.BI_close_system(), whose return codes are ignored; on an unset
\* lib the attribute access raises AttributeError
MonoFechar(m, s, sim) ==
    IF sim
    THEN {[mono |-> m, session |-> s, raised |-> FALSE, cost |-> 0]}
    ELSE IF m.lib = "None"
    THEN {[mono |-> m, session |-> s, raised |-> TRUE, cost |-> 0]}
    ELSE {[mono |-> m, session |-> "released", raised |-> FALSE, cost |-> 0]}

---------------------------------------------------------------------------
(* SR7265LockIn *)

\* __init__: inst = None, tau = 0.3
NewLockIn == [inst |-> "None", tau |-> 30]

\* conectar: nothing in simulation; else open_resource (may raise, inst
\* unchanged), then the *IDN? query (may raise, inst already set)
Conectar(l, sim) ==
    IF sim
    THEN {[lockin |-> l, raised |-> FALSE, cost |-> 0]}
    ELSE {[lockin |-> [l EXCEPT !.inst = "open"], raised |-> FALSE, cost |-> 0],
          [lockin |-> l, raised |-> TRUE, cost |-> 1],
          [lockin |-> [l EXCEPT !.inst = "open"], raised |-> TRUE, cost |-> 1]}

\* configurar_experimento: stores tau, then (real mode) four writes
ConfigurarExperimento(l, tau, sim) ==
    LET l2 == [l EXCEPT !.tau = tau] IN
    IF sim
    THEN {[lockin |-> l2, raised |-> FALSE, cost |-> 0]}
    ELSE IF l.inst # "open"
    THEN {[lockin |-> l2, raised |-> TRUE, cost |-> 0]}
    ELSE {[lockin |-> l2, raised |-> FALSE, cost |-> 0],
          [lockin |-> l2, raised |-> TRUE, cost |-> 1]}

\* verificar_status: 640 < wl < 660 in simulation; else bit 4 of the ST answer
VerificarStatus(l, wl, sim) ==
    IF sim
    THEN {[overload |-> (SIM_OVERLOAD_LO < wl /\ wl < SIM_OVERLOAD_HI),
           raised |-> FALSE, cost |-> 0]}
    ELSE IF l.inst # "open"
    THEN {[overload |-> FALSE, raised |-> TRUE, cost |-> 0]}
    ELSE {[overload |-> FALSE, raised |-> FALSE, cost |-> 0],
          [overload |-> TRUE, raised |-> FALSE, cost |-> 1],
          [overload |-> FALSE, raised |-> TRUE, cost |-> 1]}

\* auto_sensitivity: nothing in simulation; else the write of "AS"
AutoSensitivity(l, sim) ==
    IF sim
    THEN {[raised |-> FALSE, cost |-> 0]}
    ELSE IF l.inst # "open"
    THEN {[raised |-> TRUE, cost |-> 0]}
    ELSE {[raised |-> FALSE, cost |-> 0], [raised |-> TRUE, cost |-> 1]}

SampleCost(xy) == IF xy = NominalSample THEN 0 ELSE 1

\* ler_XY: the noisy synthetic spectrum in simulation; else the parsed answer
\* of "XY." (the query, float() or the unpacking of the answer may raise)
LerXY(l, wl, sim) ==
    LET got == {[x |-> xy[1], y |-> xy[2], raised |-> FALSE,
                 cost |-> SampleCost(xy)] : xy \in Samples} IN
    IF sim
    THEN got
    ELSE IF l.inst # "open"
    THEN {[x |-> F(0), y |-> F(0), raised |-> TRUE, cost |-> 0]}
    ELSE got \cup {[x |-> F(0), y |-> F(0), raised |-> TRUE, cost |-> 1]}

\* fechar: nothing in simulation; else self.inst.close()
LockInFechar(l, sim) ==
    IF sim
    THEN {[lockin |-> l, raised |-> FALSE, cost |-> 0]}
    ELSE IF l.inst = "None"
    THEN {[lockin |-> l, raised |-> TRUE, cost |-> 0]}
    ELSE {[lockin |-> [l EXCEPT !.inst = "closed"], raised |-> FALSE, cost |-> 0],
          [lockin |-> l, raised |-> TRUE, cost |-> 1]}

---------------------------------------------------------------------------
(* Pure parts of executar_varredura *)

\* range(start, end, step): the mutation that drops the inclusive end
RangeHasNoEnd(wl, end) == wl < end

\* range(start, end + 1, step) has a next element wl (step > 0)
RangeHas(wl, end) == wl < end + 1

\* len(range(start, end + 1, step)) for step > 0
RangeLen(start, end, step) ==
    IF end + 1 > start THEN ((end - start) \div step) + 1 ELSE 0

\* the failure swallowed: the call goes on to the configuration
AfterInitRaiseSwallowed == "configurar"

\* an exception before the try block leaves the call at once
AfterInitRaise == "raised"

\* the failure swallowed: the loop goes on with the next wavelength
AfterRaiseContinue == "for"

\* no finally block: the exception leaves the call at once
AfterRaiseNoCleanup == "raised"

\* an exception inside the try block enters the finally block
AfterRaise == "fechar_mono"

\* the overload branch never taken
AfterStatusNever(overload) == "ler_XY"

\* if status['overload']: rescale and wait again, else go on to the read
AfterStatus(overload) == IF overload THEN "auto_sensitivity" ELSE "ler_XY"

\* the settling interval taken to be tau itself
TempoEsperaTau(tau) == tau

\* tempo_espera = tau * 5
TempoEspera(tau) == tau * TAU_FACTOR

\* tempo_espera if not SIMULATE else 0.05
SleepDuration(tempo_espera, sim) == IF ~sim THEN tempo_espera ELSE SIM_SLEEP

\* math.sqrt of a non-negative number, in whole units (exact on the perfect
\* squares)
Sqrt(n) == CHOOSE r \in 0..n : r * r <= n /\ n < (r + 1) * (r + 1)

\* tan of 0..89 degrees, times 10^6 and rounded down (tan 45 is exact)
TanE6 ==
    <<0, 17455, 34920, 52407, 69926, 87488, 105104, 122784,
      140540, 158384, 176326, 194380, 212556, 230868, 249328, 267949,
      286745, 305730, 324919, 344327, 363970, 383864, 404026, 424474,
      445228, 466307, 487732, 509525, 531709, 554309, 577350, 600860,
      624869, 649407, 674508, 700207, 726542, 753554, 781285, 809784,
      839099, 869286, 900404, 932515, 965688, 1000000, 1035530, 1072368,
      1110612, 1150368, 1191753, 1234897, 1279941, 1327044, 1376381, 1428148,
      1482560, 1539864, 1600334, 1664279, 1732050, 1804047, 1880726, 1962610,
      2050303, 2144506, 2246036, 2355852, 2475086, 2605089, 2747477, 2904210,
      3077683, 3270852, 3487414, 3732050, 4010780, 4331475, 4704630, 5144554,
      5671281, 6313751, 7115369, 8144346, 9514364, 11430052, 14300666, 19081136,
      28636253, 57289961>>

\* the whole degrees of atan(b / a) for a, b > 0: 0..89
AtanDeg(b, a) ==
    CHOOSE d \in 0..89 :
        /\ TanE6[d + 1] * a <= b * 1000000
        /\ (d < 89 => TanE6[d + 2] * a > b * 1000000)

\* math.degrees(math.atan2(y, x)), rounded towards zero to whole degrees.
\* On the axes atan2 goes by the signs, those of the zeros included:
\* atan2(+-0, x) is +-0 for x of positive sign and +-pi for x of negative
\* sign; atan2(y, +-0) is +-pi/2.
Atan2Deg(y, x) ==
    IF y.m = 0 THEN (IF x.s = 1 THEN 0 ELSE y.s * 180)
    ELSE IF x.m = 0 THEN y.s * 90
    ELSE IF x.s = 1 THEN y.s * AtanDeg(y.m, x.m)
    ELSE IF y.m = x.m THEN y.s * 135
    ELSE y.s * (179 - AtanDeg(y.m, x.m))

\* r = math.sqrt(x**2 + y**2): never of negative sign
Norm(x, y) == [s |-> 1, m |-> Sqrt(x.m * x.m + y.m * y.m)]

\* the record with the arguments of atan2 exchanged
RecordSwapped(wl_real, x, y) ==
    <<wl_real, x, y, Norm(x, y), Atan2Deg(x, y)>>

\* [wl_real, x, y, r, fase]
Record(wl_real, x, y) ==
    <<wl_real, x, y, Norm(x, y), Atan2Deg(y, x)>>

---------------------------------------------------------------------------
(* State *)

NoLocals == [start |-> 0, end |-> 0, step |-> 0, tau |-> 0, tempo_espera |-> 0,
             it |-> 0, wl |-> 0, wl_real |-> 0, overload |-> FALSE,
             x |-> F(0), y |-> F(0),
             \* history: the answers of verificar_status in this call, in order
             answers |-> <<>>]

NoMove == [called |-> FALSE, cur |-> None, target |-> 0, events |-> <<>>,
           ret |-> 0, raised |-> FALSE]

NoCall == [op |-> "none", raised |-> FALSE]

\* the module is loaded and Experimento() is constructed
InitWith(b) ==
    /\ SIMULATE \in BOOLEAN
    /\ grid \in Grids
    /\ mono = NewMono
    /\ lockin = NewLockIn
    /\ dados = <<>>
    /\ session = "none"
    /\ pc = "idle"
    /\ loc = NoLocals
    /\ exc = <<>>
    /\ trace = <<>>
    /\ dados0 = <<>>
    /\ mv = NoMove
    /\ call = NoCall
    /\ budget = b
    /\ sweeps = 0
    /\ directs = 0

Init == InitWith(MaxAnomalies)

Spend(o) == o.cost <= budget /\ budget' = budget - o.cost

\* what an executar_varredura step never touches
UNCHANGED_caller == UNCHANGED <<SIMULATE, grid, dados0, call, sweeps, directs>>

---------------------------------------------------------------------------
(* Experimento.executar_varredura, one action per statement *)

\* the call starting from an empty result list
ExecutarClearing(start, end, step, tau) ==
    /\ pc = "idle"
    /\ pc' = "inicializar"
    /\ loc' = [NoLocals EXCEPT !.start = start, !.end = end, !.step = step,
                               !.tau = tau]
    /\ exc' = <<>>
    /\ trace' = <<>>
    /\ dados' = <<>>
    /\ dados0' = <<>>
    /\ sweeps' = sweeps + 1
    /\ UNCHANGED <<SIMULATE, grid, mono, lockin, session, mv, call, budget,
                   directs>>

\* the call itself: binds the arguments
Executar(start, end, step, tau) ==
    /\ pc = "idle"
    /\ pc' = "inicializar"
    /\ loc' = [NoLocals EXCEPT !.start = start, !.end = end, !.step = step,
                               !.tau = tau]
    /\ exc' = <<>>
    /\ trace' = <<>>
    /\ dados0' = dados
    /\ sweeps' = sweeps + 1
    /\ UNCHANGED <<SIMULATE, grid, mono, lockin, dados, session, mv, call, budget,
                   directs>>

\* self.mono.inicializar(): outside the try, a failure leaves the call at once
Inicializar ==
    /\ pc = "inicializar"
    /\ \E o \in MonoInicializar(mono, session, SIMULATE) :
        /\ Spend(o)
        /\ mono' = o.mono
        /\ session' = o.session
        /\ trace' = Append(trace, Ev("inicializar", 0))
        /\ IF o.raised
           THEN pc' = AfterInitRaise /\ exc' = <<"inicializar">>
           ELSE pc' = "conectar" /\ exc' = exc
    /\ UNCHANGED <<lockin, dados, loc, mv>>
    /\ UNCHANGED_caller

\* self.lockin.conectar(): outside the try
ConectarStep ==
    /\ pc = "conectar"
    /\ \E o \in Conectar(lockin, SIMULATE) :
        /\ Spend(o)
        /\ lockin' = o.lockin
        /\ trace' = Append(trace, Ev("conectar", 0))
        /\ IF o.raised
           THEN pc' = AfterInitRaise /\ exc' = <<"conectar">>
           ELSE pc' = "configurar" /\ exc' = exc
    /\ UNCHANGED <<mono, dados, session, loc, mv>>
    /\ UNCHANGED_caller

\* self.lockin.configurar_experimento(tau=tau); tempo_espera = tau * 5;
\* the range iterator is created on entering the try
ConfigurarStep ==
    /\ pc = "configurar"
    /\ \E o \in ConfigurarExperimento(lockin, loc.tau, SIMULATE) :
        /\ Spend(o)
        /\ lockin' = o.lockin
        /\ trace' = Append(trace, Ev("configurar_experimento", loc.tau))
        /\ IF o.raised
           THEN pc' = AfterInitRaise /\ exc' = <<"configurar_experimento">>
                /\ loc' = loc
           ELSE pc' = "for" /\ exc' = exc
                /\ loc' = [loc EXCEPT !.tempo_espera = TempoEspera(loc.tau),
                                      !.it = loc.start]
    /\ UNCHANGED <<mono, dados, session, mv>>
    /\ UNCHANGED_caller

\* the loop that never leaves its header once the range is exhausted
ForNextStuck ==
    /\ pc = "for"
    /\ IF RangeHas(loc.it, loc.end)
       THEN /\ loc' = [loc EXCEPT !.wl = loc.it, !.it = loc.it + loc.step]
            /\ pc' = "mover_para"
       ELSE /\ loc' = loc
            /\ pc' = "for"
    /\ UNCHANGED <<mono, lockin, dados, session, exc, trace, mv, budget>>
    /\ UNCHANGED_caller

\* for wl in range(start, end + 1, step): the next element, or the end of the
\* loop (which enters the finally block)
ForNext ==
    /\ pc = "for"
    /\ IF RangeHas(loc.it, loc.end)
       THEN /\ loc' = [loc EXCEPT !.wl = loc.it, !.it = loc.it + loc.step]
            /\ pc' = "mover_para"
       ELSE /\ loc' = loc
            /\ pc' = "fechar_mono"
    /\ UNCHANGED <<mono, lockin, dados, session, exc, trace, mv, budget>>
    /\ UNCHANGED_caller

\* the move whose achieved wavelength is taken to be the requested one
MoverParaStepAssumed ==
    /\ pc = "mover_para"
    /\ \E o \in MoverPara(mono, loc.wl, SIMULATE, grid) :
        /\ Spend(o)
        /\ mono' = o.mono
        /\ trace' = Append(trace, Ev("mover_para", loc.wl)) \o o.events
        /\ mv' = [called |-> TRUE, cur |-> mono.current_lambda,
                  target |-> loc.wl, events |-> o.events, ret |-> o.ret,
                  raised |-> o.raised]
        /\ IF o.raised
           THEN pc' = AfterRaise /\ exc' = <<"mover_para">> /\ loc' = loc
           ELSE pc' = "sleep1" /\ exc' = exc
                /\ loc' = [loc EXCEPT !.wl_real = loc.wl]
    /\ UNCHANGED <<lockin, dados, session>>
    /\ UNCHANGED_caller

\* wl_real = self.mono.mover_para(wl)
MoverParaStep ==
    /\ pc = "mover_para"
    /\ \E o \in MoverPara(mono, loc.wl, SIMULATE, grid) :
        /\ Spend(o)
        /\ mono' = o.mono
        /\ trace' = Append(trace, Ev("mover_para", loc.wl)) \o o.events
        /\ mv' = [called |-> TRUE, cur |-> mono.current_lambda,
                  target |-> loc.wl, events |-> o.events, ret |-> o.ret,
                  raised |-> o.raised]
        /\ IF o.raised
           THEN pc' = AfterRaise /\ exc' = <<"mover_para">> /\ loc' = loc
           ELSE pc' = "sleep1" /\ exc' = exc
                /\ loc' = [loc EXCEPT !.wl_real = o.ret]
    /\ UNCHANGED <<lockin, dados, session>>
    /\ UNCHANGED_caller

\* the step without its wait after the move
Sleep1Skipped ==
    /\ pc = "sleep1"
    /\ pc' = "verificar_status"
    /\ UNCHANGED <<mono, lockin, dados, session, loc, exc, trace, mv, budget>>
    /\ UNCHANGED_caller

\* time.sleep(tempo_espera if not SIMULATE else 0.05), after the move
Sleep1 ==
    /\ pc = "sleep1"
    /\ trace' = Append(trace, Ev("sleep", SleepDuration(loc.tempo_espera, SIMULATE)))
    /\ pc' = "verificar_status"
    /\ UNCHANGED <<mono, lockin, dados, session, loc, exc, mv, budget>>
    /\ UNCHANGED_caller

\* status = self.lockin.verificar_status(wl_real); if status['overload']:
StatusStep ==
    /\ pc = "verificar_status"
    /\ \E o \in VerificarStatus(lockin, loc.wl_real, SIMULATE) :
        /\ Spend(o)
        /\ trace' = Append(trace, Ev("verificar_status", loc.wl_real))
        /\ IF o.raised
           THEN pc' = AfterRaise /\ exc' = <<"verificar_status">>
                /\ loc' = loc
           ELSE /\ pc' = AfterStatus(o.overload)
                /\ exc' = exc
                /\ loc' = [loc EXCEPT !.overload = o.overload,
                                      !.answers = Append(@, o.overload)]
    /\ UNCHANGED <<mono, lockin, dados, session, mv>>
    /\ UNCHANGED_caller

\* self.lockin.auto_sensitivity()
AutoStep ==
    /\ pc = "auto_sensitivity"
    /\ \E o \in AutoSensitivity(lockin, SIMULATE) :
        /\ Spend(o)
        /\ trace' = Append(trace, Ev("auto_sensitivity", 0))
        /\ IF o.raised
           THEN pc' = AfterRaise /\ exc' = <<"auto_sensitivity">>
           ELSE pc' = "sleep2" /\ exc' = exc
    /\ UNCHANGED <<mono, lockin, dados, session, loc, mv>>
    /\ UNCHANGED_caller

\* the wait after the rescale made on the hardware only
Sleep2RealOnly ==
    /\ pc = "sleep2"
    /\ trace' = IF SIMULATE THEN trace
                ELSE Append(trace, Ev("sleep", SleepDuration(loc.tempo_espera, SIMULATE)))
    /\ pc' = "ler_XY"
    /\ UNCHANGED <<mono, lockin, dados, session, loc, exc, mv, budget>>
    /\ UNCHANGED_caller

\* the wait after the rescale followed by a second saturation query
Sleep2Recheck ==
    /\ pc = "sleep2"
    /\ trace' = Append(trace, Ev("sleep", SleepDuration(loc.tempo_espera, SIMULATE)))
    /\ pc' = "verificar_status"
    /\ UNCHANGED <<mono, lockin, dados, session, loc, exc, mv, budget>>
    /\ UNCHANGED_caller

\* time.sleep(tempo_espera if not SIMULATE else 0.05), after the rescale
Sleep2 ==
    /\ pc = "sleep2"
    /\ trace' = Append(trace, Ev("sleep", SleepDuration(loc.tempo_espera, SIMULATE)))
    /\ pc' = "ler_XY"
    /\ UNCHANGED <<mono, lockin, dados, session, loc, exc, mv, budget>>
    /\ UNCHANGED_caller

\* the read after which the next step starts before the record is appended
LerXYStepThenMove ==
    /\ pc = "ler_XY"
    /\ \E o \in LerXY(lockin, loc.wl_real, SIMULATE) :
        /\ Spend(o)
        /\ trace' = Append(trace, Ev("ler_XY", loc.wl_real))
        /\ IF o.raised
           THEN pc' = AfterRaise /\ exc' = <<"ler_XY">> /\ loc' = loc
           ELSE pc' = "for" /\ exc' = exc
                /\ loc' = [loc EXCEPT !.x = o.x, !.y = o.y]
    /\ UNCHANGED <<mono, lockin, dados, session, mv>>
    /\ UNCHANGED_caller

\* x, y = self.lockin.ler_XY(wl_real)
LerXYStep ==
    /\ pc = "ler_XY"
    /\ \E o \in LerXY(lockin, loc.wl_real, SIMULATE) :
        /\ Spend(o)
        /\ trace' = Append(trace, Ev("ler_XY", loc.wl_real))
        /\ IF o.raised
           THEN pc' = AfterRaise /\ exc' = <<"ler_XY">> /\ loc' = loc
           ELSE pc' = "append" /\ exc' = exc
                /\ loc' = [loc EXCEPT !.x = o.x, !.y = o.y]
    /\ UNCHANGED <<mono, lockin, dados, session, mv>>
    /\ UNCHANGED_caller

\* the append with the requested wavelength wl instead of wl_real
AppendStepRequested ==
    /\ pc = "append"
    /\ dados' = Append(dados, Record(loc.wl, loc.x, loc.y))
    /\ trace' = Append(trace, Ev("append", loc.wl))
    /\ pc' = "for"
    /\ UNCHANGED <<mono, lockin, session, loc, exc, mv, budget>>
    /\ UNCHANGED_caller

\* r = ...; fase = ...; self.dados.append([wl_real, x, y, r, fase])
AppendStep ==
    /\ pc = "append"
    /\ dados' = Append(dados, Record(loc.wl_real, loc.x, loc.y))
    /\ trace' = Append(trace, Ev("append", loc.wl_real))
    /\ pc' = "for"
    /\ UNCHANGED <<mono, lockin, session, loc, exc, mv, budget>>
    /\ UNCHANGED_caller

\* finally: self.mono.fechar(); an exception here skips the rest of the block
FecharMonoStep ==
    /\ pc = "fechar_mono"
    /\ \E o \in MonoFechar(mono, session, SIMULATE) :
        /\ Spend(o)
        /\ mono' = o.mono
        /\ session' = o.session
        /\ trace' = Append(trace, Ev("mono.fechar", 0))
        /\ IF o.raised
           THEN pc' = "raised" /\ exc' = Append(exc, "mono.fechar")
           ELSE pc' = "fechar_lockin" /\ exc' = exc
    /\ UNCHANGED <<lockin, dados, loc, mv>>
    /\ UNCHANGED_caller

\* finally: self.lockin.fechar(); then the call returns, or the pending
\* exception goes on to the caller
FecharLockinStep ==
    /\ pc = "fechar_lockin"
    /\ \E o \in LockInFechar(lockin, SIMULATE) :
        /\ Spend(o)
        /\ lockin' = o.lockin
        /\ trace' = Append(trace, Ev("lockin.fechar", 0))
        /\ IF o.raised
           THEN pc' = "raised" /\ exc' = Append(exc, "lockin.fechar")
           ELSE pc' = (IF exc = <<>> THEN "done" ELSE "raised") /\ exc' = exc
    /\ UNCHANGED <<mono, dados, session, loc, mv>>
    /\ UNCHANGED_caller

\* control is back at the caller: the locals are gone (and the histories of
\* the call are cleared)
Return ==
    /\ pc \in {"done", "raised"}
    /\ pc' = "idle"
    /\ loc' = NoLocals
    /\ exc' = <<>>
    /\ trace' = <<>>
    /\ dados0' = dados
    /\ mv' = NoMove
    /\ UNCHANGED <<SIMULATE, grid, mono, lockin, dados, session, call, budget,
                   sweeps, directs>>

Sweep ==
    \/ Inicializar
    \/ ConectarStep
    \/ ConfigurarStep
    \/ ForNext
    \/ MoverParaStep
    \/ Sleep1
    \/ StatusStep
    \/ AutoStep
    \/ Sleep2
    \/ LerXYStep
    \/ AppendStep
    \/ FecharMonoStep
    \/ FecharLockinStep
    \/ Return

---------------------------------------------------------------------------
(* The caller *)

\* exp.executar_varredura(start, end, step, tau) with a positive step
StartSweep ==
    /\ sweeps < MaxSweeps
    /\ \E start \in Starts, span \in -1..MaxSpan, step \in Steps, tau \in Taus :
        Executar(start, start + span, step, tau)

\* exp.mono.inicializar() called directly
DirectInicializar ==
    /\ pc = "idle"
    /\ directs < MaxDirectCalls
    /\ \E o \in MonoInicializar(mono, session, SIMULATE) :
        /\ Spend(o)
        /\ mono' = o.mono
        /\ session' = o.session
        /\ call' = [op |-> "inicializar", raised |-> o.raised]
    /\ directs' = directs + 1
    /\ UNCHANGED <<SIMULATE, grid, lockin, dados, pc, loc, exc, trace, dados0, mv,
                   sweeps>>

\* exp.mono.mover_para(t) called directly
DirectMoverPara ==
    /\ pc = "idle"
    /\ directs < MaxDirectCalls
    /\ \E t \in Targets : \E o \in MoverPara(mono, t, SIMULATE, grid) :
        /\ Spend(o)
        /\ mono' = o.mono
        /\ mv' = [called |-> TRUE, cur |-> mono.current_lambda, target |-> t,
                  events |-> o.events, ret |-> o.ret, raised |-> o.raised]
        /\ call' = [op |-> "mover_para", raised |-> o.raised]
    /\ directs' = directs + 1
    /\ UNCHANGED <<SIMULATE, grid, lockin, dados, session, pc, loc, exc, trace,
                   dados0, sweeps>>

\* exp.mono.fechar() called directly
DirectFechar ==
    /\ pc = "idle"
    /\ directs < MaxDirectCalls
    /\ \E o \in MonoFechar(mono, session, SIMULATE) :
        /\ Spend(o)
        /\ mono' = o.mono
        /\ session' = o.session
        /\ call' = [op |-> "fechar", raised |-> o.raised]
    /\ directs' = directs + 1
    /\ UNCHANGED <<SIMULATE, grid, lockin, dados, pc, loc, exc, trace, dados0, mv,
                   sweeps>>

\* the controller: sweeps on one Experimento
Next ==
    \/ StartSweep
    \/ Sweep

Spec == Init /\ [][Next]_vars

\* the actuator on its own: its methods called in any order
NextActuator ==
    \/ DirectInicializar
    \/ DirectMoverPara
    \/ DirectFechar

SpecActuator == Init /\ [][NextActuator]_vars

---------------------------------------------------------------------------
(* The script's scenario: one sweep 400..800, step 5, tau 0.3 *)

InitE2E == InitWith(E2EAnomalies)

\* exp.executar_varredura(start=400, end=800, step=5, tau=0.3)
StartE2E ==
    /\ sweeps < 1
    /\ Executar(400, 800, 5, 30)

NextE2E ==
    \/ StartE2E
    \/ Sweep

SpecE2E == InitE2E /\ [][NextE2E]_vars

---------------------------------------------------------------------------
(* One call of executar_varredura that is run to its end: the interpreter  *)
(* goes on to the next statement as long as there is one, and every call   *)
(* of an instrument returns or raises                                      *)

\* exp.executar_varredura(start, end, step, tau), with end also below start
StartTerm ==
    /\ sweeps < 1
    /\ \E start \in Starts, span \in (-1 - MaxSpan)..MaxSpan, step \in Steps,
          tau \in Taus :
        Executar(start, start + span, step, tau)

NextTerm ==
    \/ StartTerm
    \/ Sweep

SpecTerm == Init /\ [][NextTerm]_vars /\ WF_vars(Sweep)

---------------------------------------------------------------------------
(* The derivation of a record from a sample: the hardware sweep 500..500 has *)
(* just read (x, y), any pair of floats                                      *)

InitDerive ==
    /\ SIMULATE = FALSE
    /\ grid = 1
    /\ mono = [current_lambda |-> Some(500), lib |-> "loaded"]
    /\ lockin = [inst |-> "open", tau |-> 30]
    /\ dados = <<>>
    /\ session = "open"
    /\ pc = "append"
    /\ \E x \in Floats, y \in Floats :
        loc = [start |-> 500, end |-> 500, step |-> 1, tau |-> 30,
               tempo_espera |-> TempoEspera(30), it |-> 501, wl |-> 500,
               wl_real |-> 500, overload |-> FALSE, x |-> x, y |-> y,
               answers |-> <<FALSE>>]
    /\ exc = <<>>
    /\ trace = <<Ev("inicializar", 0), Ev("conectar", 0),
                 Ev("configurar_experimento", 30), Ev("mover_para", 500),
                 Ev("cmd", 500), Ev("sleep", TempoEspera(30)),
                 Ev("verificar_status", 500), Ev("ler_XY", 500)>>
    /\ dados0 = <<>>
    /\ mv = [called |-> TRUE, cur |-> None, target |-> 500,
             events |-> <<Ev("cmd", 500)>>, ret |-> 500, raised |-> FALSE]
    /\ call = NoCall
    /\ budget = 0
    /\ sweeps = 1
    /\ directs = 0

NextDerive == AppendStep

SpecDerive == InitDerive /\ [][NextDerive]_vars

---------------------------------------------------------------------------
(* Reading the histories *)

Ops(events) == [i \in 1..Len(events) |-> events[i].op]

Args(events) == [i \in 1..Len(events) |-> events[i].arg]

Count(events, o) ==
    LET Is(e) == e.op = o IN Len(SelectSeq(events, Is))

\* the events of `events` whose operation is in `ops`, in order
Only(events, ops) ==
    LET Wanted(e) == e.op \in ops IN SelectSeq(events, Wanted)

\* the index of the last event of the trace whose operation is in `ops`, or 0
LastIdx(ops) ==
    LET is == {i \in 1..Len(trace) : trace[i].op \in ops} IN
    IF is = {} THEN 0 ELSE CHOOSE i \in is : \A j \in is : j <= i

\* the events of the trace strictly between positions a and b
Between(a, b) == SubSeq(trace, a + 1, b - 1)

JustCalled(ops) == trace # <<>> /\ trace[Len(trace)].op \in ops

Exited == pc \in {"done", "raised"}

\* the instrument commands of a wavelength step
StepCommands == {"mover_para", "cmd", "backlash_sleep", "sleep",
                 "verificar_status", "auto_sensitivity", "ler_XY", "append"}

\* the records appended by the current call
Appended == SubSeq(dados, Len(dados0) + 1, Len(dados))

Steps_requested == RangeLen(loc.start, loc.end, loc.step)

---------------------------------------------------------------------------
(* C1 *)

\* C1 as stated: when executar_varredura returns normally, dados holds as many
\* records as range(start, end + 1, step) has elements, also on an
\* Experimento that has run a sweep before
C1_Original == pc = "done" => Len(dados) = Steps_requested

\* C1 amended: when executar_varredura returns normally, it has appended as
\* many records as range(start, end + 1, step) has elements to the records
\* dados held at the call; on a fresh Experimento that is all of dados
C1_Amended ==
    pc = "done" =>
        /\ Len(dados) = Len(dados0) + Steps_requested
        /\ SubSeq(dados, 1, Len(dados0)) = dados0
        /\ (sweeps = 1 => Len(dados) = Steps_requested)

C1_Witness ==
    /\ pc = "done"
    /\ sweeps = 2
    /\ Len(dados0) > 0
    /\ Steps_requested = 2

---------------------------------------------------------------------------
(* C2 *)

\* C2: when a command of a wavelength step (the read, the status query, the
\* rescale or the move) raises, mono.fechar and lockin.fechar have each been
\* invoked exactly once when executar_varredura exits
C2_CleanupOnStepFailure ==
    (Exited /\ exc # <<>>
        /\ exc[1] \in {"mover_para", "verificar_status", "auto_sensitivity", "ler_XY"})
    => /\ Count(trace, "mono.fechar") = 1
       /\ Count(trace, "lockin.fechar") = 1
       /\ pc = "raised"

C2_Witness ==
    /\ pc = "raised"
    /\ exc[1] = "ler_XY"
    /\ Len(Appended) = 1
    /\ Count(trace, "mono.fechar") = 1
    /\ Count(trace, "lockin.fechar") = 1

---------------------------------------------------------------------------
(* C3 *)

\* mono.inicializar was called in this call and returned
InicializarReturned ==
    /\ Count(trace, "inicializar") = 1
    /\ exc # <<"inicializar">>

\* C3 as stated: once mono.inicializar has succeeded, mono.fechar has been
\* invoked when executar_varredura exits, whatever the exit path
C3_Claim == (Exited /\ InicializarReturned) => Count(trace, "mono.fechar") >= 1

---------------------------------------------------------------------------
(* C4 *)

\* the wavelengths commanded to the drive by the last mover_para
Commanded == Args(Only(mv.events, {"cmd"}))

\* what C4 expects: the overshoot position, then the target, on a decreasing
\* move that is not the first; else the target alone
C4_Expected ==
    IF mv.cur # None /\ mv.target < mv.cur[1]
    THEN <<Max(0, mv.target - 2), mv.target>>
    ELSE <<mv.target>>

\* C4 as stated: every mover_para that returns has commanded C4_Expected, in
\* simulation as on the hardware
C4_Original == (mv.called /\ ~mv.raised) => Commanded = C4_Expected

\* C4 amended: on the hardware (SIMULATE false) a mover_para that returns has
\* commanded C4_Expected, with the pause between the overshoot and the target
\* move; in simulation it commands nothing and stores the target
C4_Amended ==
    (mv.called /\ ~mv.raised) =>
        IF SIMULATE
        THEN mv.events = <<>> /\ mono.current_lambda = Some(mv.target)
        ELSE /\ Commanded = C4_Expected
             /\ Ops(mv.events) \in {<<"cmd">>, <<"cmd", "backlash_sleep", "cmd">>}

C4_Witness ==
    /\ ~SIMULATE
    /\ mv.called
    /\ mv.cur = Some(500)
    /\ mv.target = 480
    /\ Commanded = <<478, 480>>

---------------------------------------------------------------------------
(* C5 *)

\* C5: when ler_XY is called, what happened since the status query of the step
\* is exactly one auto_sensitivity followed by one wait if the query reported
\* overload, and nothing otherwise
C5_OverloadRetry ==
    JustCalled({"ler_XY"}) =>
        LET q == LastIdx({"verificar_status"}) IN
        /\ q > 0
        /\ Ops(Between(q, Len(trace))) =
               IF loc.overload THEN <<"auto_sensitivity", "sleep">> ELSE <<>>

C5_Witness ==
    /\ JustCalled({"ler_XY"})
    /\ loc.overload
    /\ ~SIMULATE
    /\ Count(trace, "auto_sensitivity") = 1

---------------------------------------------------------------------------
(* C6 *)

\* C6: when verificar_status or ler_XY is called, a wait has been made since
\* the last command of the step's mover_para
C6_Settling ==
    JustCalled({"verificar_status", "ler_XY"}) =>
        LET m == LastIdx({"mover_para", "cmd", "backlash_sleep"}) IN
        /\ m > 0
        /\ \E j \in (m + 1)..(Len(trace) - 1) : trace[j].op = "sleep"

C6_Witness ==
    /\ JustCalled({"verificar_status"})
    /\ Count(trace, "mover_para") = 2
    /\ Count(trace, "sleep") = 2
    /\ ~SIMULATE

---------------------------------------------------------------------------
(* C7 *)

\* the wavelengths of the records of dados, in order
Wavelengths == [i \in 1..Len(dados) |-> dados[i][1]]

\* C7 as stated: the sweep 400..800 by 5 on a fresh Experimento returns with 81
\* records, the i-th (from 0) at wavelength 400 + 5 i
C7_Original ==
    pc = "done" =>
        /\ Len(dados) = 81
        /\ \A i \in 0..80 : dados[i + 1][1] = 400 + 5 * i

\* C7 amended: the sweep returns with 81 records; the i-th carries the
\* wavelength the actuator achieved for the request 400 + 5 i, which is
\* 400 + 5 i in simulation and on a drive that meets every request exactly
C7_Amended ==
    pc = "done" =>
        /\ Len(dados) = 81
        /\ ((SIMULATE \/ grid = 1) =>
               /\ \A i \in 0..80 : dados[i + 1][1] = 400 + 5 * i
               /\ \A i \in 1..80 : dados[i][1] < dados[i + 1][1])
        /\ (~SIMULATE =>
               \A i \in 0..80 : dados[i + 1][1] = Achieved(400 + 5 * i, grid))
        /\ Wavelengths = Args(Only(trace, {"append"}))
        /\ Ops(Only(trace, {"mover_para"})) = [i \in 1..81 |-> "mover_para"]
        /\ Args(Only(trace, {"mover_para"})) = [i \in 1..81 |-> 400 + 5 * (i - 1)]

C7_Witness ==
    /\ pc = "done"
    /\ SIMULATE
    /\ Len(dados) = 81
    /\ dados[81][1] = 800

---------------------------------------------------------------------------
(* C8 *)

ReadFailed == exc # <<>> /\ exc[1] = "ler_XY"

\* C8: once a read has failed, the exception is on its way to the caller, no
\* command of a wavelength step follows the failed read, the records appended
\* by the earlier steps are those steps' records in order, and dados does not
\* change any more
C8_ReadFailure ==
    /\ [](ReadFailed =>
            /\ pc \in {"fechar_mono", "fechar_lockin", "raised"}
            /\ \A j \in (LastIdx({"ler_XY"}) + 1)..Len(trace) :
                   trace[j].op \notin StepCommands
            /\ Len(Appended) = Count(trace, "ler_XY") - 1
            /\ [i \in 1..Len(Appended) |-> Appended[i][1]]
                   = Args(Only(trace, {"append"}))
            /\ SubSeq(dados, 1, Len(dados0)) = dados0)
    /\ [][ReadFailed => dados' = dados]_vars

C8_Witness ==
    /\ ReadFailed
    /\ pc = "raised"
    /\ Len(Appended) = 1
    /\ Len(dados0) > 0

---------------------------------------------------------------------------
(* C9 *)

\* C9: when mono.inicializar or lockin.conectar has failed, the call is over
\* with the exception, no command of a wavelength step was issued and no
\* record was appended
C9_InitFailure ==
    (exc # <<>> /\ exc[1] \in {"inicializar", "conectar"}) =>
        /\ pc = "raised"
        /\ \A j \in 1..Len(trace) : trace[j].op \notin StepCommands
        /\ dados = dados0

C9_Witness ==
    /\ pc = "raised"
    /\ exc = <<"conectar">>
    /\ Len(dados0) > 0

---------------------------------------------------------------------------
(* C10 *)

\* C10 as stated: fechar called on the actuator in any state returns without
\* an error and leaves no session open
C10_Claim == call.op = "fechar" => (~call.raised /\ session # "open")

---------------------------------------------------------------------------
(* C11 *)

\* the operations of the controller, as opposed to the commands a method
\* sends to its instrument
AbstractOps == {"inicializar", "conectar", "configurar_experimento",
                "mover_para", "sleep", "verificar_status", "auto_sensitivity",
                "ler_XY", "append", "mono.fechar", "lockin.fechar"}

\* the operations of one step whose status query answered `overload`
OpsOfStep(overload) ==
    <<"mover_para", "sleep", "verificar_status">>
    \o (IF overload THEN <<"auto_sensitivity", "sleep">> ELSE <<>>)
    \o <<"ler_XY", "append">>

\* the operations of the steps with the answers `ans`, in order
RECURSIVE OpsOfSteps(_)
OpsOfSteps(ans) ==
    IF ans = <<>> THEN <<>> ELSE OpsOfStep(Head(ans)) \o OpsOfSteps(Tail(ans))

\* the operations of a whole sweep with the answers `ans`: no mention of the
\* mode
OpsOfSweep(ans) ==
    <<"inicializar", "conectar", "configurar_experimento">>
    \o OpsOfSteps(ans)
    \o <<"mono.fechar", "lockin.fechar">>

\* the wavelengths of range(start, start + n * step, step)
Requested(start, step, n) == [i \in 1..n |-> start + (i - 1) * step]

\* C11: the operations of a sweep that returns are a function of the sweep
\* configuration and of the saturation answers alone, the same function in
\* simulation and on the hardware: a simulated and a real run with the same
\* configuration and answers issue the same operations, with the same
\* requested wavelengths
C11_SameControlFlow ==
    pc = "done" =>
        /\ Len(loc.answers) = Steps_requested
        /\ Ops(Only(trace, AbstractOps)) = OpsOfSweep(loc.answers)
        /\ Args(Only(trace, {"mover_para"}))
               = Requested(loc.start, loc.step, Steps_requested)

\* a simulated run with a saturated and an unsaturated step is possible only
\* across 659/660; the inputs give saturated steps in simulation at 650, 651
C11_Witness ==
    /\ pc = "done"
    /\ SIMULATE
    /\ loc.answers = <<TRUE, TRUE>>

---------------------------------------------------------------------------
(* C12 *)

\* the record just appended, and the sample it was derived from
Derived == pc = "for" /\ JustCalled({"append"})
LastRecord == dados[Len(dados)]

\* magnitude and phase as C12 describes them, short of the phase range: the
\* magnitude is the (whole part of the) Euclidean norm and not negative; the
\* phase has the sign of the quadrature, is within 90 degrees of zero exactly
\* for in-phase values of positive sign, and is 45 or 135 degrees off zero
\* on the diagonals; (3, 4) gives 5 and 53 (.13) degrees
C12_Derivation ==
    LET x == LastRecord[2]
        y == LastRecord[3]
        r == LastRecord[4]
        fase == LastRecord[5]
        abs == IF fase < 0 THEN -fase ELSE fase
        n == x.m * x.m + y.m * y.m
    IN  /\ x = loc.x /\ y = loc.y
        /\ r.s = 1 /\ r.m * r.m <= n /\ n < (r.m + 1) * (r.m + 1)
        /\ (y.m > 0 => (fase # 0 /\ (fase > 0 <=> y.s = 1)))
        /\ (x.m > 0 /\ x.s = 1 => abs < 90)
        /\ (x.m > 0 /\ x.s = -1 => abs > 90)
        /\ (x.m = 0 /\ y.m > 0 => abs = 90)
        /\ (x.m = y.m /\ x.m > 0 => abs \in {45, 135})
        /\ (x.m > y.m /\ y.m > 0 /\ x.s = 1 => abs < 45)
        /\ (x.m < y.m /\ x.s = 1 => abs > 45)
        /\ (x = F(3) /\ y = F(4) => r.m = 5 /\ fase = 53)

---------------------------------------------------------------------------
(* C13 *)

\* the events of the wavelength step in progress: from its move on
ThisStep ==
    IF LastIdx({"mover_para"}) = 0 THEN <<>>
    ELSE SubSeq(trace, LastIdx({"mover_para"}), Len(trace))

\* C13: the saturation queries and rescales of a wavelength step are at
\* most one query, then at most one rescale (so no query follows a rescale);
\* there is exactly one query before the read, the answer the step acts on
\* is the one of this step (one answer per step moved to), and the step
\* rescales only on a saturated answer
C13_SingleRetry ==
    LET S == ThisStep
        queries == Count(S, "verificar_status")
        rescales == Count(S, "auto_sensitivity")
    IN  /\ Ops(Only(S, {"verificar_status", "auto_sensitivity"}))
               \in {<<>>, <<"verificar_status">>,
                    <<"verificar_status", "auto_sensitivity">>}
        /\ rescales = 1
            => /\ queries = 1
               /\ Len(loc.answers) = Count(trace, "mover_para")
               /\ loc.answers[Len(loc.answers)]
        /\ JustCalled({"ler_XY"})
            => /\ queries = 1
               /\ Len(loc.answers) = Count(trace, "mover_para")
               /\ loc.overload = loc.answers[Len(loc.answers)]
               /\ rescales = (IF loc.overload THEN 1 ELSE 0)

\* the simulated detector, still saturated at 650 nm after the rescale, is read
C13_Witness ==
    /\ JustCalled({"ler_XY"})
    /\ SIMULATE
    /\ Count(ThisStep, "auto_sensitivity") = 1
    /\ SIM_OVERLOAD_LO < loc.wl_real
    /\ loc.wl_real < SIM_OVERLOAD_HI
    /\ pc = "append"

---------------------------------------------------------------------------
(* C14 *)

\* the operations of the call so far, the actuator's own commands left out
Commands == Ops(Only(trace, AbstractOps))

\* the operations that may follow operation i of the commands T when it
\* returned
NextCommands(T, i) ==
    LET a == T[i]
    IN  IF a = "inicializar" THEN {"conectar"}
        ELSE IF a = "conectar" THEN {"configurar_experimento"}
        ELSE IF a = "configurar_experimento" THEN {"mover_para", "mono.fechar"}
        ELSE IF a = "mover_para" THEN {"sleep"}
        ELSE IF a = "sleep"
            THEN (IF T[i - 1] = "mover_para" THEN {"verificar_status"}
                  ELSE {"ler_XY"})
        ELSE IF a = "verificar_status" THEN {"auto_sensitivity", "ler_XY"}
        ELSE IF a = "auto_sensitivity" THEN {"sleep"}
        ELSE IF a = "ler_XY" THEN {"append"}
        ELSE IF a = "append" THEN {"mover_para", "mono.fechar"}
        ELSE IF a = "mono.fechar" THEN {"lockin.fechar"}
        ELSE {}

\* the operations after which the shutdown starts because they raised
MayRaise == {"mover_para", "verificar_status", "auto_sensitivity", "ler_XY"}

\* C14: the commands of a sweep are init, connect, configure, then per step
\* move, settle, check, (rescale, settle)?, read, append, then the two
\* shutdowns: each command is followed by its successor in that grammar, or,
\* when a command of a step raised, by the shutdown; a sweep that returns
\* normally never left the grammar and ends with the detector's shutdown; the
\* number of moves is never more than one ahead of the number of records
C14_Sequencing ==
    LET T == Commands IN
    /\ (T # <<>> => T[1] = "inicializar")
    /\ \A i \in 1..(Len(T) - 1) :
        \/ T[i + 1] \in NextCommands(T, i)
        \/ T[i] \in MayRaise /\ T[i + 1] = "mono.fechar" /\ exc # <<>>
    /\ Count(trace, "mover_para") - Count(trace, "append") \in {0, 1}
    /\ (JustCalled({"mover_para"}) =>
            Count(trace, "mover_para") = Count(trace, "append") + 1)
    /\ (pc = "done" =>
            /\ T[Len(T)] = "lockin.fechar"
            /\ \A i \in 1..(Len(T) - 1) : T[i + 1] \in NextCommands(T, i))

\* a returned sweep of two steps, the first with a rescale
C14_Witness ==
    /\ pc = "done"
    /\ Count(trace, "append") = 2
    /\ loc.answers = <<TRUE, FALSE>>

---------------------------------------------------------------------------
(* C15 *)

\* the waits of the sweep: the durations passed to time.sleep by
\* executar_varredura, in hundredths of a second
Waits == Args(Only(trace, {"sleep"}))

\* C15 as stated: every settling wait of the sweep lasts 5 x tau, tau being
\* the time constant passed to the call, in simulated and in real mode
C15_Original ==
    LET W == Waits IN
    \A i \in 1..Len(W) : W[i] = 5 * loc.tau

\* C15 amended: in real mode every settling wait of the sweep lasts 5 x tau;
\* in simulated mode every wait lasts 0.05 s whatever tau is
C15_Amended ==
    LET W == Waits IN
    \A i \in 1..Len(W) :
        W[i] = (IF SIMULATE THEN SIM_SLEEP ELSE 5 * loc.tau)

\* a real step that waited twice 1.5 s, with tau = 0.3 s
C15_Witness ==
    /\ JustCalled({"ler_XY"})
    /\ ~SIMULATE
    /\ loc.tau = 30
    /\ Waits = <<150, 150>>

---------------------------------------------------------------------------
(* C16 *)

\* C16: the saturation query, the read and the append of a step all carry the
\* wavelength mover_para returned for that step, and so does the record: the
\* wavelengths of the records of the call are those passed to the appends
C16_AchievedReported ==
    /\ LET S == ThisStep IN
       \A i \in 1..Len(S) :
        S[i].op \in {"verificar_status", "ler_XY", "append"}
            => (~mv.raised /\ S[i].arg = mv.ret)
    /\ (JustCalled({"append"}) => dados[Len(dados)][1] = mv.ret)
    /\ Len(Appended) = Count(trace, "append")

\* the actuator answered 651 to the request 650 and the record carries 651
C16_Witness ==
    /\ JustCalled({"append"})
    /\ mv.target = 650
    /\ mv.ret = 651
    /\ dados[Len(dados)][1] = 651

---------------------------------------------------------------------------
(* C17 *)

\* a step of the program that changes current_lambda
LambdaChanges == mono'.current_lambda # mono.current_lambda

\* what a returned move leaves in current_lambda: the achieved wavelength of
\* the final move, which is the move to the target
FinalMove ==
    /\ ~mv'.raised
    /\ mono'.current_lambda = Some(mv'.ret)
    /\ mv'.ret = (IF SIMULATE THEN mv'.target ELSE Achieved(mv'.target, grid))
    /\ (~SIMULATE =>
            mv'.events[Len(mv'.events)] = Ev("cmd", mv'.target))

\* C17: current_lambda is unset when the program starts; only a step that is a
\* call of mover_para changes it, to the achieved wavelength of the final
\* move to the target; every other step (inicializar, fechar, the detector's
\* operations, the start and the return of a sweep) leaves it as it was
C17_Frame ==
    /\ mono.current_lambda = None
    /\ [][LambdaChanges => (pc = "mover_para" /\ FinalMove)]_vars

\* a move down with a backlash overshoot has left the achieved wavelength of
\* the target, and the shutdown has not touched it
C17_Witness ==
    /\ pc = "done"
    /\ ~SIMULATE
    /\ Count(trace, "backlash_sleep") = 1
    /\ Count(trace, "mono.fechar") = 1
    /\ mono.current_lambda = Some(Achieved(loc.start, grid))

---------------------------------------------------------------------------
(* C18 *)

\* dados after the step is dados before it with one record added at the end
OneMore ==
    /\ Len(dados') = Len(dados) + 1
    /\ SubSeq(dados', 1, Len(dados)) = dados

\* C18: dados starts empty and every step of the program leaves dados as it
\* is or, being the append of a wavelength step, adds exactly one record at
\* its end: no step (a shutdown, a failing command, the start or the return
\* of a sweep) removes, reorders or modifies a record, so dados extends what
\* it was in every earlier state
C18_AppendOnly ==
    /\ dados = <<>>
    /\ [][IF pc = "append" THEN OneMore ELSE dados' = dados]_vars

\* the second sweep on the same Experimento has appended after the records
\* of the first
C18_Witness ==
    /\ JustCalled({"append"})
    /\ sweeps = 2
    /\ Len(dados0) > 0
    /\ Len(dados) > Len(dados0)
    /\ SubSeq(dados, 1, Len(dados0)) = dados0

---------------------------------------------------------------------------
(* C19 *)

\* the wavelengths requested from the actuator by the call so far
RequestedSoFar == Args(Only(trace, {"mover_para"}))

\* the positions in the trace of the overshoot moves (each is followed by
\* its backlash wait)
Overshoots == {i \in 1..Len(trace) : trace[i].op = "backlash_sleep"}

\* C19: with an actuator that achieves what is requested, the wavelengths
\* requested within a sweep are strictly increasing, and an overshoot move
\* is issued at most once in a sweep: in its first move, when the actuator is
\* not fresh but holds the position left by an earlier sweep, and the start
\* of the sweep is below that position
C19_NoOvershootWithinSweep ==
    grid = 1 =>
        /\ LET R == RequestedSoFar IN
           \A i \in 1..(Len(R) - 1) : R[i] < R[i + 1]
        /\ \A i \in Overshoots :
            /\ sweeps >= 2
            /\ Count(SubSeq(trace, 1, i), "mover_para") = 1
        /\ (mv.called /\ Count(mv.events, "backlash_sleep") > 0) =>
            /\ Count(trace, "mover_para") = 1
            /\ mv.cur # None
            /\ mv.target = loc.start
            /\ loc.start < mv.cur[1]
        /\ (sweeps = 1 \/ (mv.called /\ mv.cur = None)) => Overshoots = {}

\* a second sweep started below the position left by the first: its first
\* move overshot, its second did not
C19_Witness ==
    /\ grid = 1
    /\ pc = "done"
    /\ sweeps = 2
    /\ Len(RequestedSoFar) = 2
    /\ Cardinality(Overshoots) = 1

---------------------------------------------------------------------------
(* C20 *)

\* the call has returned normally: no exception on its way to the caller
Returned == pc = "done"

\* C20: a started call in which no instrument operation raises eventually
\* returns; when it has returned it made exactly len(range(start, end + 1,
\* step)) steps (none when start > end), each with one move and one record,
\* and ran the initialization and each of the two shutdowns once
C20_Termination ==
    /\ (pc = "inicializar") ~> (Returned \/ exc # <<>>)
    /\ [](Returned =>
            /\ exc = <<>>
            /\ Count(trace, "mover_para") = Steps_requested
            /\ Count(trace, "append") = Steps_requested
            /\ (loc.start > loc.end => Steps_requested = 0)
            /\ Count(trace, "inicializar") = 1
            /\ Count(trace, "conectar") = 1
            /\ Count(trace, "configurar_experimento") = 1
            /\ Count(trace, "mono.fechar") = 1
            /\ Count(trace, "lockin.fechar") = 1)

\* a call with start > end has returned: no step, one initialization, both
\* shutdowns
C20_Witness ==
    /\ Returned
    /\ loc.start > loc.end + 1
    /\ Ops(trace) = <<"inicializar", "conectar", "configurar_experimento",
                      "mono.fechar", "lockin.fechar">>

=============================================================================
